---- MODULE Spec2Model ----
(***************************************************************************)
(* run-fan: a polling daemon that reads the CPU temperature, switches a    *)
(* fan through one GPIO pin with hysteresis, and writes a dated log.       *)
(*                                                                         *)
(* The model follows src/run-fan.py statement by statement.  The main      *)
(* thread's position is pc; a KeyboardInterrupt (SIGINT) or a SIGTERM can  *)
(* arrive between any two steps of the module-level code up to the end of  *)
(* the try body.  Temperatures are kept in millidegrees, the unit of the   *)
(* sysfs file: cpuTemperature holds the number read, which stands for      *)
(* float(res)/1000.  Calendar days are numbered 1, 2, ...                  *)
(***************************************************************************)
EXTENDS Integers, Sequences, FiniteSets, TLC

VARIABLES
    pc,             \* position of the main thread
    fanOff,         \* Fan.fanOff
    cpuTemperature, \* Temperature.cpuTemperature, in millidegrees
    on,             \* argument `on` of the Fan.setFan call in progress
    logName,        \* global logName: DefaultLog or the number of a day
    fileOpen,       \* TRUE while the file object fileLog is open
    files,          \* contents of the log files: name -> sequence of lines
    today,          \* the calendar day dateStamp() would return now
    pinInit,        \* outcome of Pin.__init__: "unset", "ready", "failed"
    myPinBound,     \* TRUE once the name myPin is assigned (line 187)
    pinLevel,       \* level last written successfully to the GPIO pin
    commands,       \* the calls of GPIO.output so far: <<state, succeeded>>
    released,       \* number of calls of GPIO.cleanup
    exitStatus,     \* exit status of the process, -1 while it runs
    cause,          \* what made the process leave the try body
    sigPc,          \* pc at which a signal was delivered, "none" before
    hist,           \* one record per call of checkTemperature
    openDay         \* the calendar day on which fileLog was opened

vars == <<pc, fanOff, cpuTemperature, on, logName, fileOpen, files, today,
          pinInit, myPinBound, pinLevel, commands, released, exitStatus,
          cause, sigPc, hist, openDay>>

-----------------------------------------------------------------------------
(* Bounds of the model *)

MaxTicks == 4
MaxDay == 2

(* Program constants *)

startTemperature == 67
stopTemperature == startTemperature - 5
DefaultLog == 0

(* what `cat /sys/class/thermal/thermal_zone0/temp` can print, millidegrees *)
Samples == {stopTemperature * 1000, stopTemperature * 1000 + 1,
            startTemperature * 1000, startTemperature * 1000 + 1}

Days == 1..MaxDay
LogNames == {DefaultLog} \cup Days

(* statements inside the try body (lines 187-202) *)
TryPcs == {"pin_init", "pin_except", "construct", "tick", "check",
           "setfan_log", "setfan_set", "setfan_assign",
           "rotate", "rot_open", "sleep"}

(* statements of checkTemperature and what it calls *)
TickPcs == {"check", "setfan_log", "setfan_set", "setfan_assign"}

-----------------------------------------------------------------------------
(* Helpers *)

Last(s) == s[Len(s)]

SetLast(s, r) == [s EXCEPT ![Len(s)] = r]

(* "/home/pi/run-fan/logs/run-fan-{}.log".format(dateStamp()): one name per
   day, never the default name *)
DatedLog(d) == d

(* printMsg(s): fileLog.write(...) appends one line to the open file *)
printMsg(f, name, line) == [f EXCEPT ![name] = Append(@, line)]

(* open(name, 'w+', buffering=1): creates the file or truncates it *)
OpenW(f, name) == [f EXCEPT ![name] = <<>>]

(* Decide with one threshold only: the fan goes off as soon as the sample is
   no longer above startTemperature *)
Decide_NoDeadBand(t, off) ==
    IF t > startTemperature * 1000
    THEN (IF off THEN "on" ELSE "none")
    ELSE (IF ~off THEN "off" ELSE "none")

(* Decide with >= in place of > at line 175 *)
Decide_OnAtStart(t, off) ==
    IF t >= startTemperature * 1000
    THEN (IF off THEN "on" ELSE "none")
    ELSE IF t <= stopTemperature * 1000
         THEN (IF ~off THEN "off" ELSE "none")
         ELSE "none"

(* Decide with < in place of <= at line 179 *)
Decide_OffBelowStop(t, off) ==
    IF t > startTemperature * 1000
    THEN (IF off THEN "on" ELSE "none")
    ELSE IF t < stopTemperature * 1000
         THEN (IF ~off THEN "off" ELSE "none")
         ELSE "none"

(* Decide without the tests of myFan.fanOff at lines 177 and 181 *)
Decide_Ungated(t, off) ==
    IF t > startTemperature * 1000
    THEN "on"
    ELSE IF t <= stopTemperature * 1000
         THEN "off"
         ELSE "none"

(* the comparisons of checkTemperature: which setFan call, if any *)
Decide(t, off) ==
    IF t > startTemperature * 1000
    THEN (IF off THEN "on" ELSE "none")
    ELSE IF t <= stopTemperature * 1000
         THEN (IF ~off THEN "off" ELSE "none")
         ELSE "none"

(* what an earlier run of the program, ended by a fault on the same day and
   restarted by the supervisor (Restart=Always, lines 33-46), left at the
   end of that day's log *)
OldLines == << <<"ERROR: an unhandled exception occurred">> >>

-----------------------------------------------------------------------------
(* The state after lines 85-89: the default log has just been opened with
   'w+' and is empty; the dated log of today is absent, or an earlier run of
   the same day has left lines in it. *)
Init ==
    /\ pc = "start"
    /\ fanOff = TRUE
    /\ cpuTemperature = 0
    /\ on = FALSE
    /\ logName = DefaultLog
    /\ fileOpen = TRUE
    /\ today \in Days
    /\ openDay = today
    /\ \E earlier \in BOOLEAN :
          files = [n \in LogNames |->
                     IF earlier /\ n = DatedLog(today) THEN OldLines ELSE <<>>]
    /\ pinInit = "unset"
    /\ myPinBound = FALSE
    /\ pinLevel = FALSE
    /\ commands = <<>>
    /\ released = 0
    /\ exitStatus = -1
    /\ cause = "none"
    /\ sigPc = "none"
    /\ hist = <<>>


-----------------------------------------------------------------------------
(* Startup: lines 185-189 *)

(* line 185: printMsg("Starting: run-fan"), before the try statement *)
Starting ==
    /\ pc = "start"
    /\ files' = printMsg(files, logName, <<"Starting: run-fan">>)
    /\ pc' = "pin_init"
    /\ UNCHANGED <<openDay, fanOff, cpuTemperature, on, logName, fileOpen, today,
                   pinInit, myPinBound, pinLevel, commands, released,
                   exitStatus, cause, sigPc, hist>>

(* Pin.__init__, the try part (lines 112-118).  Either the GPIO calls and the
   two messages go through, or something raises, before or after the first
   message: a GPIO call that fails, or a KeyboardInterrupt delivered here,
   which the bare except of line 119 catches like any other exception. *)
PinInit ==
    /\ pc = "pin_init"
    /\ \/ /\ pinInit' = "ready"
          /\ files' = printMsg(printMsg(files, logName,
                          <<"Initialized: run-fan using GPIO pin: 25">>),
                          logName, <<"GPIO pin: 25 set to">>)
          /\ pc' = "construct"
       \/ /\ pinInit' = "failed"
          /\ files' \in {files,
                         printMsg(files, logName,
                             <<"Initialized: run-fan using GPIO pin: 25">>)}
          /\ pc' = "pin_except"
    /\ UNCHANGED <<openDay, fanOff, cpuTemperature, on, logName, fileOpen, today,
                   myPinBound, pinLevel, commands, released, exitStatus,
                   cause, sigPc, hist>>

(* Pin.__init__, the except part (lines 119-121): the message is written and
   `exit`, a name that is not called, does nothing; the constructor returns. *)
PinExcept ==
    /\ pc = "pin_except"
    /\ files' = printMsg(files, logName,
                  <<"If method setup doesn't work, need to run script as sudo">>)
    /\ pc' = "construct"
    /\ UNCHANGED <<openDay, fanOff, cpuTemperature, on, logName, fileOpen, today,
                   pinInit, myPinBound, pinLevel, commands, released,
                   exitStatus, cause, sigPc, hist>>

(* lines 187-189: myPin is bound, Fan() sets fanOff, Temperature() logs the
   two thresholds; the while loop is entered. *)
Construct ==
    /\ pc = "construct"
    /\ myPinBound' = TRUE
    /\ fanOff' = TRUE
    /\ files' = printMsg(printMsg(files, logName,
                    <<"Start fan at: ", startTemperature * 1000>>),
                    logName, <<"Stop fan at: ", stopTemperature * 1000>>)
    /\ pc' = "tick"
    /\ UNCHANGED <<openDay, cpuTemperature, on, logName, fileOpen, today, pinInit,
                   pinLevel, commands, released, exitStatus, cause, sigPc,
                   hist>>

-----------------------------------------------------------------------------
(* One tick: checkTemperature, lines 173-182, and what it calls *)

TickRecord(t, ok) ==
    [temp |-> t, read |-> ok, pre |-> fanOff, post |-> fanOff,
     cmd |-> "none", logged |-> FALSE, wrote |-> FALSE, done |-> ~ok,
     lvlPre |-> pinLevel, lvl |-> pinLevel]

(* getTemperature (lines 165-170) with the sensor able to show any value of
   S: the line read is a number, or it is not (an empty line when cat fails)
   and float() raises. *)
GetTemperatureFrom(S) ==
    /\ pc = "tick"
    /\ \/ \E res \in S :
             /\ cpuTemperature' = res
             /\ hist' = Append(hist, TickRecord(res, TRUE))
             /\ pc' = "check"
             /\ cause' = cause
       \/ /\ cpuTemperature' = cpuTemperature
          /\ hist' = Append(hist, TickRecord(0, FALSE))
          /\ pc' = "fault"
          /\ cause' = "sensor"
    /\ UNCHANGED <<openDay, fanOff, on, logName, fileOpen, files, today,
                   pinInit, myPinBound, pinLevel, commands, released,
                   exitStatus, sigPc>>

(* getTemperature that answers a failed read with the value 0.0 and goes on *)
GetTemperature_Sentinel ==
    /\ pc = "tick"
    /\ \/ \E res \in Samples :
             /\ cpuTemperature' = res
             /\ hist' = Append(hist, TickRecord(res, TRUE))
             /\ pc' = "check"
             /\ cause' = cause
       \/ /\ cpuTemperature' = 0
          /\ hist' = Append(hist, TickRecord(0, FALSE))
          /\ pc' = "check"
          /\ cause' = "sensor"
    /\ UNCHANGED <<openDay, fanOff, on, logName, fileOpen, files, today, pinInit,
                   myPinBound, pinLevel, commands, released, exitStatus,
                   sigPc>>

(* getTemperature, the sensor showing any of Samples *)
GetTemperature == GetTemperatureFrom(Samples)

(* lines 175-182: the comparisons; setFan is entered or the tick is over *)
CheckTemperature ==
    /\ pc = "check"
    /\ LET d == Decide(cpuTemperature, fanOff) IN
       IF d = "none"
       THEN /\ hist' = SetLast(hist, [Last(hist) EXCEPT !.done = TRUE])
            /\ on' = on
            /\ pc' = "rotate"
       ELSE /\ hist' = hist
            /\ on' = (d = "on")
            /\ pc' = "setfan_log"
    /\ UNCHANGED <<openDay, fanOff, cpuTemperature, logName, fileOpen, files, today,
                   pinInit, myPinBound, pinLevel, commands, released,
                   exitStatus, cause, sigPc>>

(* setFan, lines 139-142: the transition message *)
SetFanLog ==
    /\ pc = "setfan_log"
    /\ files' = printMsg(files, logName,
                  <<(IF on THEN "Turning fan on " ELSE "Turning fan off "),
                    cpuTemperature>>)
    /\ hist' = SetLast(hist, [Last(hist) EXCEPT !.logged = TRUE])
    /\ pc' = "setfan_set"
    /\ UNCHANGED <<openDay, fanOff, cpuTemperature, on, logName, fileOpen, today,
                   pinInit, myPinBound, pinLevel, commands, released,
                   exitStatus, cause, sigPc>>

(* setFan with lines 143 and 144 swapped: fanOff is assigned before the
   write, so a write that raises leaves the new value behind *)
PinSet_AssignFirst ==
    /\ pc = "setfan_set"
    /\ \/ /\ pinLevel' = on
          /\ fanOff' = fanOff
          /\ commands' = Append(commands, <<on, TRUE>>)
          /\ hist' = SetLast(hist, [Last(hist) EXCEPT
                         !.cmd = IF on THEN "on" ELSE "off",
                         !.wrote = TRUE, !.lvl = on])
          /\ pc' = "setfan_assign"
          /\ cause' = cause
       \/ /\ pinLevel' = pinLevel
          /\ fanOff' = ~on
          /\ commands' = Append(commands, <<on, FALSE>>)
          /\ hist' = SetLast(hist, [Last(hist) EXCEPT
                         !.cmd = IF on THEN "on" ELSE "off",
                         !.post = ~on, !.done = TRUE])
          /\ pc' = "fault"
          /\ cause' = "write"
    /\ UNCHANGED <<openDay, cpuTemperature, on, logName, fileOpen, files,
                   today, pinInit, myPinBound, released, exitStatus, sigPc>>

(* setFan, line 143: myPin.set(on), i.e. GPIO.output, which writes the pin
   or raises *)
PinSet ==
    /\ pc = "setfan_set"
    /\ \/ /\ pinLevel' = on
          /\ commands' = Append(commands, <<on, TRUE>>)
          /\ hist' = SetLast(hist, [Last(hist) EXCEPT
                         !.cmd = IF on THEN "on" ELSE "off",
                         !.wrote = TRUE, !.lvl = on])
          /\ pc' = "setfan_assign"
          /\ cause' = cause
       \/ /\ pinLevel' = pinLevel
          /\ commands' = Append(commands, <<on, FALSE>>)
          /\ hist' = SetLast(hist, [Last(hist) EXCEPT
                         !.cmd = IF on THEN "on" ELSE "off",
                         !.done = TRUE])
          /\ pc' = "fault"
          /\ cause' = "write"
    /\ UNCHANGED <<openDay, fanOff, cpuTemperature, on, logName, fileOpen, files,
                   today, pinInit, myPinBound, released, exitStatus, sigPc>>

(* setFan with line 144 written self.fanOff = on *)
SetFanAssign_Inverted ==
    /\ pc = "setfan_assign"
    /\ fanOff' = on
    /\ hist' = SetLast(hist, [Last(hist) EXCEPT !.post = on, !.done = TRUE])
    /\ pc' = "rotate"
    /\ UNCHANGED <<openDay, cpuTemperature, on, logName, fileOpen, files,
                   today, pinInit, myPinBound, pinLevel, commands, released,
                   exitStatus, cause, sigPc>>

(* setFan without line 144: fanOff is never updated *)
SetFanAssign_Stale ==
    /\ pc = "setfan_assign"
    /\ fanOff' = fanOff
    /\ hist' = SetLast(hist, [Last(hist) EXCEPT !.done = TRUE])
    /\ pc' = "rotate"
    /\ UNCHANGED <<openDay, cpuTemperature, on, logName, fileOpen, files,
                   today, pinInit, myPinBound, pinLevel, commands, released,
                   exitStatus, cause, sigPc>>

(* setFan, line 144: self.fanOff = not on; checkTemperature returns *)
SetFanAssign ==
    /\ pc = "setfan_assign"
    /\ fanOff' = ~on
    /\ hist' = SetLast(hist, [Last(hist) EXCEPT !.post = ~on, !.done = TRUE])
    /\ pc' = "rotate"
    /\ UNCHANGED <<openDay, cpuTemperature, on, logName, fileOpen, files, today,
                   pinInit, myPinBound, pinLevel, commands, released,
                   exitStatus, cause, sigPc>>

-----------------------------------------------------------------------------
(* The rest of the loop body: lines 192-202 *)

(* the rotation without line 196: the file is closed and the old name is
   opened again *)
Rotate_KeepName ==
    /\ pc = "rotate"
    /\ LET tmp == DatedLog(today) IN
       IF tmp # logName
       THEN /\ fileOpen' = FALSE
            /\ logName' = logName
            /\ pc' = "rot_open"
       ELSE /\ fileOpen' = fileOpen
            /\ logName' = logName
            /\ pc' = "sleep"
    /\ UNCHANGED <<openDay, fanOff, cpuTemperature, on, files, today,
                   pinInit, myPinBound, pinLevel, commands, released,
                   exitStatus, cause, sigPc, hist>>

(* lines 193-196: the name for today is computed; when it differs from
   logName the file is closed and logName takes the new name *)
Rotate ==
    /\ pc = "rotate"
    /\ LET tmp == DatedLog(today) IN
       IF tmp # logName
       THEN /\ fileOpen' = FALSE
            /\ logName' = tmp
            /\ pc' = "rot_open"
       ELSE /\ fileOpen' = fileOpen
            /\ logName' = logName
            /\ pc' = "sleep"
    /\ UNCHANGED <<openDay, fanOff, cpuTemperature, on, files, today, pinInit,
                   myPinBound, pinLevel, commands, released, exitStatus,
                   cause, sigPc, hist>>

(* lines 197-199: open(logName, 'w+') creates or truncates the file and
   fileLog is the new open file, then the sweep of logs older than 14 days
   runs (it removes nothing within MaxDay days); or open raises and fileLog
   is still the closed file. *)
RotateOpen ==
    /\ pc = "rot_open"
    /\ \/ /\ files' = OpenW(files, logName)
          /\ fileOpen' = TRUE
          /\ openDay' = today
          /\ pc' = "sleep"
          /\ cause' = cause
       \/ /\ files' = files
          /\ fileOpen' = fileOpen
          /\ openDay' = openDay
          /\ pc' = "fault"
          /\ cause' = "rotate"
    /\ UNCHANGED <<fanOff, cpuTemperature, on, logName, today, pinInit,
                   myPinBound, pinLevel, commands, released, exitStatus,
                   sigPc, hist>>

(* line 202: time.sleep(sleepTime) returns and the loop starts over; the
   model follows the loop as long as `more` holds *)
SleepWhile(more) ==
    /\ pc = "sleep"
    /\ more
    /\ pc' = "tick"
    /\ UNCHANGED <<openDay, fanOff, cpuTemperature, on, logName, fileOpen,
                   files, today, pinInit, myPinBound, pinLevel, commands,
                   released, exitStatus, cause, sigPc, hist>>

Sleep == SleepWhile(Len(hist) < MaxTicks)

(* the calendar day changes while the process runs *)
Midnight ==
    /\ pc # "exited"
    /\ today < MaxDay
    /\ today' = today + 1
    /\ UNCHANGED <<openDay, pc, fanOff, cpuTemperature, on, logName, fileOpen, files,
                   pinInit, myPinBound, pinLevel, commands, released,
                   exitStatus, cause, sigPc, hist>>

-----------------------------------------------------------------------------
(* Signals *)

(* SIGINT: Python raises KeyboardInterrupt in the main thread.  Inside the
   try body it reaches the handler of line 204 (inside Pin.__init__ it is
   caught there instead, see PinInit); at line 185 nothing catches it and the
   interpreter ends with a traceback. *)
KeyboardInterrupt ==
    /\ pc \in (TryPcs \ {"pin_init"}) \cup {"start"}
    /\ cause' = "sigint"
    /\ sigPc' = pc
    /\ IF pc = "start"
       THEN pc' = "exited" /\ exitStatus' = 1
       ELSE pc' = "kbd" /\ exitStatus' = exitStatus
    /\ UNCHANGED <<openDay, fanOff, cpuTemperature, on, logName, fileOpen, files,
                   today, pinInit, myPinBound, pinLevel, commands, released,
                   hist>>

(* SIGTERM: the program installs no handler (signal is imported and never
   used), so the default disposition ends the process at once; no Python
   code runs and the status reported is 128 + 15. *)
Terminate ==
    /\ pc \in TryPcs \cup {"start"}
    /\ cause' = "sigterm"
    /\ sigPc' = pc
    /\ pc' = "exited"
    /\ exitStatus' = 128 + 15
    /\ UNCHANGED <<openDay, fanOff, cpuTemperature, on, logName, fileOpen, files,
                   today, pinInit, myPinBound, pinLevel, commands, released,
                   hist>>

-----------------------------------------------------------------------------
(* The two except clauses, lines 204-212.  Both run printMsg, myPin.exitPin()
   and fileLog.close(), after which the script ends and the status is 0.
   printMsg on a closed file raises ValueError and myPin unbound raises
   NameError: either leaves the handler at once and the interpreter ends
   with a traceback, status 1. *)
ExceptClause(text) ==
    /\ IF ~fileOpen
       THEN /\ files' = files
            /\ released' = released
            /\ fileOpen' = fileOpen
            /\ exitStatus' = 1
       ELSE IF ~myPinBound
       THEN /\ files' = printMsg(files, logName, <<text>>)
            /\ released' = released
            /\ fileOpen' = fileOpen
            /\ exitStatus' = 1
       ELSE /\ files' = printMsg(files, logName, <<text>>)
            /\ released' = released + 1
            /\ fileOpen' = FALSE
            /\ exitStatus' = 0
    /\ pc' = "exited"
    /\ UNCHANGED <<openDay, fanOff, cpuTemperature, on, logName, today, pinInit,
                   myPinBound, pinLevel, commands, cause, sigPc, hist>>

(* lines 204-207 *)
ExceptKeyboardInterrupt ==
    /\ pc = "kbd"
    /\ ExceptClause("keyboard exception occurred")

(* lines 209-212 *)
ExceptAny ==
    /\ pc = "fault"
    /\ ExceptClause("ERROR: an unhandled exception occurred")

-----------------------------------------------------------------------------
Next ==
    \/ Starting
    \/ PinInit
    \/ PinExcept
    \/ Construct
    \/ GetTemperature
    \/ CheckTemperature
    \/ SetFanLog
    \/ PinSet
    \/ SetFanAssign
    \/ Rotate
    \/ RotateOpen
    \/ Sleep
    \/ Midnight
    \/ KeyboardInterrupt
    \/ Terminate
    \/ ExceptKeyboardInterrupt
    \/ ExceptAny

Spec == Init /\ [][Next]_vars

-----------------------------------------------------------------------------
(* The same program fed either with samples of Samples, for MaxTicks ticks,
   or with the sample sequence of the scenario of section 8 of the
   specification (start 67, stop 62, samples 50, 68, 65, 61, 63, 90). *)

Scenario == <<50000, 68000, 65000, 61000, 63000, 90000>>

(* the samples read so far are the first samples of the scenario *)
OnScenario(h) ==
    /\ Len(h) < Len(Scenario)
    /\ \A k \in 1..Len(h) : h[k].read /\ h[k].temp = Scenario[k]

(* the samples read so far are all of Samples *)
OnSamples(h) ==
    /\ Len(h) < MaxTicks
    /\ \A k \in 1..Len(h) : h[k].read /\ h[k].temp \in Samples

(* what the sensor can show at the next tick *)
NextSamples(h) ==
    (IF OnScenario(h) THEN {Scenario[Len(h) + 1]} ELSE {})
        \cup (IF OnSamples(h) THEN Samples ELSE {})

ScenarioGetTemperature == GetTemperatureFrom(NextSamples(hist))

ScenarioSleep == SleepWhile(NextSamples(hist) # {})

ScenarioNext ==
    \/ Starting
    \/ PinInit
    \/ PinExcept
    \/ Construct
    \/ ScenarioGetTemperature
    \/ CheckTemperature
    \/ SetFanLog
    \/ PinSet
    \/ SetFanAssign
    \/ Rotate
    \/ RotateOpen
    \/ ScenarioSleep
    \/ Midnight
    \/ KeyboardInterrupt
    \/ Terminate
    \/ ExceptKeyboardInterrupt
    \/ ExceptAny

ScenarioSpec == Init /\ [][ScenarioNext]_vars

TypeOK ==
    /\ pc \in TryPcs \cup {"start", "kbd", "fault", "exited"}
    /\ fanOff \in BOOLEAN
    /\ on \in BOOLEAN
    /\ logName \in LogNames
    /\ fileOpen \in BOOLEAN
    /\ today \in Days
    /\ pinInit \in {"unset", "ready", "failed"}
    /\ released \in 0..1
    /\ exitStatus \in {-1, 0, 1, 128 + 15}
    /\ cause \in {"none", "sigint", "sigterm", "sensor", "write", "rotate"}
    /\ Len(hist) <= MaxTicks
    /\ openDay \in Days

-----------------------------------------------------------------------------
(* Vocabulary of the properties.  hist[i] is the i-th call of
   checkTemperature: the sample, Fan.fanOff and the pin level before and
   after, the GPIO.output call it made and whether it returned or raised
   (done) rather than being cut short by a signal. *)

Ticks == 1..Len(hist)

Above(i) == hist[i].read /\ hist[i].temp > startTemperature * 1000
AtOrBelow(i) == hist[i].read /\ hist[i].temp <= stopTemperature * 1000
DeadBand(i) == hist[i].read /\ ~Above(i) /\ ~AtOrBelow(i)

(* the fan output, or the fan state that mirrors it, changed in tick i *)
Changed(i) ==
    hist[i].lvl # hist[i].lvlPre \/ hist[i].post # hist[i].pre

TransitionTexts == {"Turning fan on ", "Turning fan off "}

-----------------------------------------------------------------------------
(* C1: on every path out of the polling loop (interrupt, terminate, a fault
   in the loop body) GPIO.cleanup has run before the process exits.
   The code does not do this: SIGTERM ends the process with no handler, and
   a failed reopen of the log makes the except clause itself raise at
   printMsg, before myPin.exitPin(). *)
C1_ReleaseOnEveryExit ==
    (pc = "exited" /\ myPinBound) => released >= 1

(* C2: within one contiguous run of samples above startTemperature, and
   within one contiguous run of samples at or below stopTemperature, the fan
   output changes at most once; it never changes on a dead-band sample. *)
C2_NoChatter ==
    \A i \in Ticks :
        /\ DeadBand(i) => ~Changed(i)
        /\ \A j \in (i + 1)..Len(hist) :
              (\/ \A k \in i..j : Above(k)
               \/ \A k \in i..j : AtOrBelow(k))
              => ~(Changed(i) /\ Changed(j))

(* the fan goes on at the first of two samples above the start threshold,
   stays on at the second and on a dead-band sample after them *)
C2_Witness ==
    /\ Len(hist) >= 3
    /\ Above(1) /\ Changed(1)
    /\ Above(2) /\ hist[2].done
    /\ DeadBand(3) /\ hist[3].done /\ ~hist[3].pre

(* C3: a termination signal (interrupt or terminate) that arrives during the
   sleep is followed by no further tick, by exactly one release of the
   output and by exit status 0.
   The code does this for SIGINT only; SIGTERM kills the process with no
   release and a non-zero status. *)
C3_SignalMidSleep ==
    sigPc = "sleep" =>
        /\ pc \in {"kbd", "exited"}
        /\ pc = "exited" => (released = 1 /\ exitStatus = 0)

(* C4: a sensor read failure or an output write failure never ends the
   polling loop.  In the code both raise into the bare except clause, which
   ends the process. *)
C4_SoftErrorsKeepLooping ==
    cause \in {"sensor", "write"} => pc # "exited"

(* C5: a tick whose temperature read fails issues no output command, leaves
   Fan.fanOff as it was before the tick, and the failure is logged with a
   line that is not a fan transition line. *)
C5_SensorFailure ==
    cause = "sensor" =>
        LET r == Last(hist) IN
        /\ ~r.read
        /\ r.cmd = "none" /\ ~r.wrote /\ ~r.logged
        /\ fanOff = r.pre
        /\ pinLevel = r.lvlPre
        /\ pc = "exited" =>
              /\ Len(files[logName]) > 0
              /\ Last(files[logName])[1] = "ERROR: an unhandled exception occurred"
              /\ Last(files[logName])[1] \notin TransitionTexts

(* a read fails while the fan is on, and the process has logged and left *)
C5_Witness ==
    /\ cause = "sensor"
    /\ pc = "exited"
    /\ ~Last(hist).pre
    /\ Len(hist) >= 2

(* C6: when the output driver initialization fails, no tick is executed and
   no output command is issued.  The code logs the failure and goes on into
   the loop with the driver not set up. *)
C6_InitFailureStops ==
    pinInit = "failed" => (Len(hist) = 0 /\ commands = <<>>)

(* C7: the exit status is 0 exactly when the shutdown was triggered by a
   termination signal.  In the code a fault handled by the bare except
   clause also ends with status 0, and SIGTERM ends with a non-zero one. *)
C7_ExitStatus ==
    pc = "exited" => (exitStatus = 0 <=> cause \in {"sigint", "sigterm"})

(* C8: when the output write fails in a tick, Fan.fanOff after the tick is
   what it was before, so the same sample still calls for the same command. *)
C8_WriteFailureKeepsState ==
    cause = "write" =>
        LET r == Last(hist) IN
        /\ r.cmd # "none" /\ ~r.wrote
        /\ fanOff = r.pre
        /\ r.post = r.pre
        /\ Decide(cpuTemperature, fanOff) = r.cmd

(* the write of an OFF command fails while the fan is on *)
C8_Witness ==
    /\ cause = "write"
    /\ Last(hist).cmd = "off"
    /\ ~fanOff
    /\ pc = "exited"

(* C9, as stated: with the fan off, a tick whose sample equals
   startTemperature issues no command and leaves the fan off, and a tick
   whose sample is above startTemperature commands ON and sets the fan on. *)
C9_Original ==
    \A i \in Ticks :
        LET r == hist[i] IN
        (r.read /\ r.pre /\ r.done) =>
            /\ r.temp = startTemperature * 1000 => (r.cmd = "none" /\ r.post)
            /\ r.temp > startTemperature * 1000 => (r.cmd = "on" /\ ~r.post)

(* C9, amended: with the fan off, a sample equal to startTemperature issues
   no command and leaves the fan off; a sample above startTemperature, in a
   tick no signal cuts short, commands ON, and the fan state becomes ON
   exactly when that write succeeds. *)
C9_StartBoundary ==
    \A i \in Ticks :
        LET r == hist[i] IN
        (r.read /\ r.pre) =>
            /\ r.temp = startTemperature * 1000 =>
                  (r.cmd = "none" /\ ~r.logged /\ r.post /\ r.lvl = r.lvlPre)
            /\ (r.temp > startTemperature * 1000 /\ r.done) =>
                  (r.cmd = "on" /\ (r.post <=> ~r.wrote))

(* fan off: a sample of exactly startTemperature does nothing, then a sample
   one millidegree higher switches the fan on *)
C9_Witness ==
    /\ Len(hist) >= 2
    /\ hist[1].pre /\ hist[1].temp = startTemperature * 1000 /\ hist[1].done
    /\ hist[2].pre /\ hist[2].temp = startTemperature * 1000 + 1
    /\ hist[2].done /\ hist[2].wrote /\ ~fanOff

(* C10, as stated: with the fan on, a tick whose sample equals
   stopTemperature commands OFF and sets the fan off, and a tick whose
   sample is above stopTemperature issues no OFF command and leaves it on. *)
C10_Original ==
    \A i \in Ticks :
        LET r == hist[i] IN
        (r.read /\ ~r.pre /\ r.done) =>
            /\ r.temp = stopTemperature * 1000 => (r.cmd = "off" /\ r.post)
            /\ r.temp > stopTemperature * 1000 => (r.cmd # "off" /\ ~r.post)

(* C10, amended: with the fan on, a sample equal to stopTemperature, in a
   tick no signal cuts short, commands OFF, and the fan state becomes OFF
   exactly when that write succeeds; a sample above stopTemperature issues
   no OFF command and leaves the fan on. *)
C10_StopBoundary ==
    \A i \in Ticks :
        LET r == hist[i] IN
        (r.read /\ ~r.pre) =>
            /\ (r.temp = stopTemperature * 1000 /\ r.done) =>
                  (r.cmd = "off" /\ (r.post <=> r.wrote))
            /\ r.temp > stopTemperature * 1000 =>
                  (r.cmd = "none" /\ ~r.logged /\ ~r.post /\ r.lvl = r.lvlPre)

(* fan on: a sample one millidegree above stopTemperature does nothing, then
   a sample of exactly stopTemperature switches the fan off *)
C10_Witness ==
    /\ Len(hist) >= 3
    /\ ~hist[2].pre /\ hist[2].temp = stopTemperature * 1000 + 1
    /\ hist[2].done
    /\ ~hist[3].pre /\ hist[3].temp = stopTemperature * 1000
    /\ hist[3].done /\ hist[3].wrote /\ fanOff

-----------------------------------------------------------------------------
(* The reference hysteresis rule of C11, run over the samples of hist from
   the state OFF: RefOn(k) is its state after k samples, RefCmd(k) the
   command it gives at sample k. *)
RECURSIVE RefOn(_)
RefOn(k) ==
    IF k = 0 THEN FALSE
    ELSE LET t == hist[k].temp
             was == RefOn(k - 1)
         IN  IF ~was /\ t > startTemperature * 1000 THEN TRUE
             ELSE IF was /\ t <= stopTemperature * 1000 THEN FALSE
             ELSE was

RefCmd(k) ==
    LET t == hist[k].temp
        was == RefOn(k - 1)
    IN  IF ~was /\ t > startTemperature * 1000 THEN "on"
        ELSE IF was /\ t <= stopTemperature * 1000 THEN "off"
        ELSE "none"

(* the samples read by the ticks so far, and the command of each tick *)
SamplesRead == [k \in Ticks |-> hist[k].temp]
CommandsByTick == [k \in Ticks |-> hist[k].cmd]

(* every tick that ran to its end issued the command of the reference rule;
   a tick cut short by a signal is the last one and issued that command or
   none *)
FollowsReference ==
    \A k \in Ticks :
        hist[k].read =>
           /\ hist[k].done => hist[k].cmd = RefCmd(k)
           /\ ~hist[k].done =>
                 (k = Len(hist) /\ hist[k].cmd \in {"none", RefCmd(k)})

(* the six samples of the scenario have been read and the sixth tick is over *)
ScenarioRun ==
    /\ SamplesRead = Scenario
    /\ hist[Len(Scenario)].done

(* C11, as stated: over every sequence of successfully read samples,
   starting with the fan off, the ticks issue the commands of the reference
   hysteresis rule; and the samples 50, 68, 65, 61, 63, 90 give exactly ON
   at 68 and OFF at 61. *)
C11_Original ==
    /\ FollowsReference
    /\ ScenarioRun =>
          CommandsByTick = <<"none", "on", "none", "off", "none", "none">>

(* C11, amended: the ticks issue the commands of the reference hysteresis
   rule, and the samples 50, 68, 65, 61, 63, 90 give ON at 68, OFF at 61 and
   ON again at 90, the fan being off since 61. *)
C11_ReferenceRule ==
    /\ FollowsReference
    /\ ScenarioRun =>
          /\ CommandsByTick = <<"none", "on", "none", "off", "none", "on">>
          /\ [k \in 1..Len(commands) |-> commands[k][1]] = <<TRUE, FALSE, TRUE>>

(* the scenario has run to the end of its sixth tick with every write done *)
C11_Witness ==
    /\ ScenarioRun
    /\ pc = "sleep"
    /\ commands = << <<TRUE, TRUE>>, <<FALSE, TRUE>>, <<TRUE, TRUE>> >>
    /\ ~fanOff

-----------------------------------------------------------------------------
(* Log rotation *)

(* a step that runs the rotation check of lines 193-196 *)
RotationCheck == pc = "rotate" /\ pc' \in {"rot_open", "sleep"}

(* that step closes the sink *)
ClosesSink == fileOpen /\ ~fileOpen'

(* a step in which open() of line 197 succeeds *)
Reopens == pc = "rot_open" /\ pc' = "sleep"

(* C12, as stated: the first loop iteration after the date has changed
   closes the sink of the previous day and opens one named for the new
   date, and a sink is closed and reopened only when the calendar day has
   changed since it was opened. *)
C12_Original ==
    [][ /\ RotationCheck =>
              /\ today # openDay =>
                    (ClosesSink /\ logName' = DatedLog(today))
              /\ ClosesSink => today # openDay
        /\ Reopens => (fileOpen' /\ logName' = logName /\ logName \in Days)
      ]_vars

(* C12, amended: the first rotation check after the date has changed closes
   the sink and names the sink for the new date, which is then opened unless
   open fails; and a sink is closed and reopened only when its name is not
   the name for the current date: the default-named sink of startup, in the
   first loop iteration, or a sink dated with an earlier day. *)
C12_Rotation ==
    [][ /\ RotationCheck =>
              /\ today # openDay =>
                    (ClosesSink /\ logName' = DatedLog(today))
              /\ ClosesSink <=> logName # DatedLog(today)
              /\ ClosesSink =>
                    \/ logName = DefaultLog /\ Len(hist) = 1
                    \/ logName \in Days /\ logName < today
        /\ Reopens => (fileOpen' /\ logName' = logName /\ logName \in Days)
      ]_vars

(* the process has run across a day boundary: the sink of an earlier day,
   opened and written by this run, was closed and today's sink is open *)
C12_Witness ==
    /\ pc = "sleep"
    /\ fileOpen
    /\ logName = DatedLog(today)
    /\ openDay = today
    /\ \E d \in Days :
          /\ d < today
          /\ Len(files[d]) > 0
          /\ files[d][1][1] \in TransitionTexts

-----------------------------------------------------------------------------
(* C13: the log is append-only: no opening of a sink file (at startup, at
   rotation, after a restart on the same day) discards lines written to
   that file before.  The code opens every sink with mode 'w+', which
   truncates: the first rotation of a restarted process empties the log the
   earlier run of the same day wrote. *)
C13_AppendOnly ==
    [][ \A n \in LogNames :
           /\ Len(files'[n]) >= Len(files[n])
           /\ SubSeq(files'[n], 1, Len(files[n])) = files[n]
      ]_vars

(* C14: the fan state starts OFF, a command is issued only when the state
   it asks for differs from the fan state, and so the commands issued in a
   run alternate ON, OFF, ON, ... beginning with ON. *)
C14_Alternation ==
    /\ Len(hist) = 0 => fanOff
    /\ \A k \in Ticks :
          /\ hist[k].cmd = "on" => hist[k].pre
          /\ hist[k].cmd = "off" => ~hist[k].pre
    /\ \A k \in 1..Len(commands) : commands[k][1] = (k % 2 = 1)

(* three commands have been issued: ON, OFF, ON *)
C14_Witness ==
    /\ Len(commands) = 3
    /\ \A k \in 1..3 : commands[k][2]
    /\ pc = "sleep"

(* C15: a tick writes a transition line if and only if it changes the fan
   state, ticks with a failing write included.  The code writes the line
   (lines 139-142) before the write of line 143: when that write raises,
   the line is in the log and fanOff is unchanged. *)
C15_EventIffChange ==
    \A k \in Ticks :
        hist[k].done => (hist[k].logged <=> hist[k].post # hist[k].pre)

(* C16: a termination signal never stops a tick part-way, so the process
   never shuts down on a signal with a tick that has logged its transition
   or issued its command and not updated the fan state.  In the code both
   signals act between any two statements of checkTemperature and setFan. *)
C16_NoMidTickCancel ==
    cause \in {"sigint", "sigterm"} =>
        \A k \in Ticks :
            (hist[k].logged \/ hist[k].cmd # "none") =>
                hist[k].post # hist[k].pre

(* the sample of tick k asks for nothing: it lies in the dead-band, or it
   asks for the state the fan already has *)
NothingToDo(k) ==
    \/ DeadBand(k)
    \/ Above(k) /\ ~hist[k].pre
    \/ AtOrBelow(k) /\ hist[k].pre

(* C17: a tick whose sample lies in the dead-band, or asks for the state
   the fan already has, issues no command, writes no transition line and
   leaves the fan state and the pin as they were. *)
C17_NoOpTick ==
    \A k \in Ticks :
        NothingToDo(k) =>
            /\ hist[k].cmd = "none"
            /\ ~hist[k].logged
            /\ ~hist[k].wrote
            /\ hist[k].post = hist[k].pre
            /\ hist[k].lvl = hist[k].lvlPre

(* a low sample with the fan off, a high sample with the fan on and a
   dead-band sample with the fan on have all been handled *)
C17_Witness ==
    /\ \E k \in Ticks : AtOrBelow(k) /\ hist[k].pre /\ hist[k].done
    /\ \E k \in Ticks : Above(k) /\ ~hist[k].pre /\ hist[k].done
    /\ \E k \in Ticks : DeadBand(k) /\ ~hist[k].pre /\ hist[k].done

(* checkTemperature returned without raising in tick k *)
CompletedOk(k) ==
    /\ hist[k].read
    /\ hist[k].done
    /\ hist[k].cmd = "none" \/ hist[k].wrote

(* C18: after every tick that completes without error the fan state agrees
   with the sample where the sample decides it: ON after a sample above
   startTemperature, OFF after a sample at or below stopTemperature. *)
C18_StateFollowsSample ==
    \A k \in Ticks :
        CompletedOk(k) =>
            /\ Above(k) => ~hist[k].post
            /\ AtOrBelow(k) => hist[k].post

(* the first tick found the sample above the threshold and switched the fan
   on; a later tick found it at the stop threshold and switched it off *)
C18_Witness ==
    /\ Len(hist) >= 2
    /\ Above(1) /\ CompletedOk(1) /\ hist[1].pre
    /\ \E k \in Ticks : AtOrBelow(k) /\ CompletedOk(k) /\ ~hist[k].pre

(* the GPIO.output calls that returned *)
Succeeded == SelectSeq(commands, LAMBDA c : c[2])

(* C19: between ticks, fanOff is the negation of the value of the last
   GPIO.output call that succeeded, and TRUE when none has. *)
C19_LastCommand ==
    pc \in {"tick", "rotate", "rot_open", "sleep"} =>
        /\ fanOff = (IF Succeeded = <<>> THEN TRUE ELSE ~Last(Succeeded)[1])
        /\ pinLevel = ~fanOff

(* the fan was switched on and off again, and the loop sleeps *)
C19_Witness ==
    /\ pc = "sleep"
    /\ Len(Succeeded) = 2
    /\ fanOff

(* the statements about to run call printMsg first *)
PrintPcs == {"start", "pin_init", "pin_except", "construct", "setfan_log",
             "kbd", "fault"}

(* C20: every printMsg runs while the log sink is open.  In the code a
   failing open at line 197, or a KeyboardInterrupt between lines 195 and
   197, enters an except clause whose first statement is printMsg, with
   fileLog closed. *)
C20_WritesOnOpenSink ==
    pc \in PrintPcs => fileOpen

====
